---- MODULE Spec2Model ----
(***************************************************************************)
(* A model of DepenLang: the nom parser of lambda terms (parser.rs), the   *)
(* Term operations (ast.rs), the closure evaluator and the reifier         *)
(* (interpreter.rs) and the file driver (main.rs).                         *)
(*                                                                         *)
(* A Rust String is a sequence of one-character strings.  A Term is a      *)
(* record tagged "Var", "Abs" or "App"; a Value is a record tagged "Var"   *)
(* or "Closure", a closure being the three things the Rust closure         *)
(* captures: the parameter, the body and the copied environment.           *)
(***************************************************************************)
EXTENDS Naturals, Sequences, FiniteSets, TLC

VARIABLES op, input, pres, printed, pres2, outcome,
          term, env, val, held, calls, reified,
          svar, repl, sout,
          tokens, spaced

vars == <<op, input, pres, printed, pres2, outcome,
          term, env, val, held, calls, reified, svar, repl, sout,
          tokens, spaced>>

parserVars == <<input, pres, printed, pres2, outcome>>
evalVars   == <<term, env, val, held, calls, reified>>
substVars  == <<svar, repl, sout>>
lexVars    == <<tokens, spaced>>

\* The value of a variable no operation has written yet.
None == [kind |-> "None"]

----------------------------------------------------------------------------
(* Bounds of the model *)

\* Every text of at most MaxLen characters over Alphabet is an input.
MaxLen == 4
\* Every Term of at most MaxTermSize nodes over Names is an input.
MaxTermSize == 5
\* The number of nested calls the host stack holds before it overflows.
MaxDepth == 12
\* The number of invocations of one closure that are recorded.
MaxCalls == 3
\* The longest sequence of atoms that is an input.
MaxAtoms == 3
\* The longest text the lexer is given, apart from the named ones.
MaxLexLen == 4

----------------------------------------------------------------------------
(* Characters *)

Backslash == "\\"
\* The Greek small letter lambda, U+03BB: a lowercase letter, so alphabetic.
LambdaGlyph == "λ"
Letters == {"a", "b", "f", "g", "x", "y", "z", LambdaGlyph}
Digits == {"1"}
Blanks == {" ", "\t"}
\* Every character of the inputs.
Chars == Letters \cup Digits \cup Blanks
           \cup {Backslash, ".", "(", ")", "_", "$", "\n"}

\* char::is_alphabetic and char::is_alphanumeric on the characters used.
is_alphabetic(c) == c \in Letters
is_alphanumeric(c) == c \in Letters \cup Digits

\* The text of a one-letter identifier.
S(c) == <<c>>

----------------------------------------------------------------------------
(* ast.rs: Term *)

Var(x) == [tag |-> "Var", name |-> x]
Abs(x, b) == [tag |-> "Abs", param |-> x, body |-> b]
App(f, a) == [tag |-> "App", func |-> f, arg |-> a]

RECURSIVE pretty_print(_)
\* A faulty variant: the application arm joins function and argument with no space.
pretty_print_nospace(t) ==
  CASE t.tag = "Var" -> t.name
    [] t.tag = "Abs" -> <<Backslash>> \o t.param \o <<".", " ">> \o pretty_print(t.body)
    [] t.tag = "App" ->
         LET func_str == IF t.func.tag = "Abs"
                         THEN <<"(">> \o pretty_print(t.func) \o <<")">>
                         ELSE pretty_print(t.func)
             arg_str == IF t.arg.tag \in {"App", "Abs"}
                        THEN <<"(">> \o pretty_print(t.arg) \o <<")">>
                        ELSE pretty_print(t.arg)
         IN func_str \o arg_str

pretty_print(t) ==
  CASE t.tag = "Var" -> t.name
    [] t.tag = "Abs" -> <<Backslash>> \o t.param \o <<".", " ">> \o pretty_print(t.body)
    [] t.tag = "App" ->
         LET func_str == IF t.func.tag = "Abs"
                         THEN <<"(">> \o pretty_print(t.func) \o <<")">>
                         ELSE pretty_print(t.func)
             arg_str == IF t.arg.tag \in {"App", "Abs"}
                        THEN <<"(">> \o pretty_print(t.arg) \o <<")">>
                        ELSE pretty_print(t.arg)
         IN func_str \o <<" ">> \o arg_str

----------------------------------------------------------------------------
(* parser.rs: the nom combinators, on IResult<&str, O, VerboseError<&str>> *)

Ok(rest, o) == [kind |-> "Ok", rest |-> rest, out |-> o]
\* nom::Err::Error, the recoverable error of a combinator.
Error(i, code) == [kind |-> "Error", at |-> i, code |-> code]

\* The length of the longest prefix of i whose characters are in the set P.
RECURSIVE PrefixLen(_, _, _)
PrefixLen(i, P, n) ==
  IF n < Len(i) /\ i[n + 1] \in P THEN PrefixLen(i, P, n + 1) ELSE n

Drop(i, n) == SubSeq(i, n + 1, Len(i))
Take(i, n) == SubSeq(i, 1, n)

\* character::complete::space0, space1, char and bytes::complete::take_while1
space0(i) == LET n == PrefixLen(i, Blanks, 0) IN Ok(Drop(i, n), Take(i, n))
space1(i) == LET n == PrefixLen(i, Blanks, 0)
             IN IF n = 0 THEN Error(i, "Space") ELSE Ok(Drop(i, n), Take(i, n))
char(c, i) == IF i # <<>> /\ i[1] = c THEN Ok(Drop(i, 1), c) ELSE Error(i, "Char")
take_while1(P, i) == LET n == PrefixLen(i, P, 0)
                        IN IF n = 0 THEN Error(i, "TakeWhile1") ELSE Ok(Drop(i, n), Take(i, n))

\* custom_error: always a nom::Err::Failure, the unrecoverable error.
custom_error(i, kind) ==
  [kind |-> "Failure", at |-> i,
   msg |-> CASE kind = "UnexpectedEOF" -> "Unexpected end of input"
             [] kind = "InvalidVariable" -> "Invalid variable name"
             [] kind = "InvalidAbstraction" -> "Invalid lambda abstraction"
             [] kind = "InvalidApplication" -> "Invalid function application"
             [] OTHER -> kind]

\* nom's combinators on results already computed: map with its closure,
\* map_err into custom_error, and alt, which tries the next parser on
\* Err::Error only.
map_var(r) == IF r.kind = "Ok" THEN Ok(r.rest, Var(r.out)) ELSE r
map_abs(param, b) == IF b.kind = "Ok" THEN Ok(b.rest, Abs(param, b.out)) ELSE b
map_err(r, i, kind) == IF r.kind = "Ok" THEN r ELSE custom_error(i, kind)
alt(r1, r2) == IF r1.kind = "Error" THEN r2 ELSE r1

parse_var(i) ==
  map_err(map_var(take_while1({c \in Chars : is_alphabetic(c)}, i)), i, "InvalidVariable")

RECURSIVE parse_term(_)

\* preceded(char('\\'), take_while1(is_alphanumeric)), then char('.'): the
\* parameter, and as rest the text of the body.
abs_param(i) ==
  LET l == char(Backslash, i)
      p == take_while1({c \in Chars : is_alphanumeric(c)}, l.rest)
      d == char(".", p.rest)
  IN IF l.kind # "Ok" THEN l
     ELSE IF p.kind # "Ok" THEN p
     ELSE IF d.kind # "Ok" THEN d
     ELSE Ok(d.rest, p.out)

\* preceded(char('.'), parse_term), mapped to Term::Abs
abs_body(p) == IF p.kind # "Ok" THEN p ELSE map_abs(p.out, parse_term(p.rest))

parse_abs(i) == map_err(abs_body(abs_param(i)), i, "InvalidAbstraction")

\* delimited(char('('), parse_term, char(')')), from the inner term on
parens_close(t) ==
  LET r == char(")", t.rest)
  IN IF t.kind # "Ok" THEN t
     ELSE IF r.kind # "Ok" THEN r
     ELSE Ok(r.rest, t.out)
parens_inner(l) == IF l.kind # "Ok" THEN l ELSE parens_close(parse_term(l.rest))

parse_parens(i) == parens_inner(char("(", i))

parse_single_term(i) == alt(parse_var(i), alt(parse_abs(i), parse_parens(i)))

\* multi::many0(preceded(space1, parse_single_term)): stops on Err::Error,
\* passes an Err::Failure on.
RECURSIVE many0_rest(_, _)
many0_item(i, acc, t) ==
  IF t.kind = "Error" THEN Ok(i, acc)
  ELSE IF t.kind = "Failure" THEN t
  ELSE IF Len(t.rest) = Len(i) THEN Error(i, "Many0")
  ELSE many0_rest(t.rest, Append(acc, t.out))
many0_step(i, acc, s) ==
  IF s.kind # "Ok" THEN Ok(i, acc) ELSE many0_item(i, acc, parse_single_term(s.rest))
many0_rest(i, acc) == many0_step(i, acc, space1(i))

\* rest.into_iter().fold(first, |acc, term| App(acc, term))
RECURSIVE fold_app(_, _)
fold_app(acc, rest) ==
  IF rest = <<>> THEN acc ELSE fold_app(App(acc, Head(rest)), Tail(rest))

\* pair(parse_single_term, many0(...)) mapped to the fold
app_fold(first, rest) ==
  IF rest.kind # "Ok" THEN rest ELSE Ok(rest.rest, fold_app(first, rest.out))
app_rest(first) ==
  IF first.kind # "Ok" THEN first ELSE app_fold(first.out, many0_rest(first.rest, <<>>))

parse_application(i) ==
  map_err(app_rest(parse_single_term(i)), i, "InvalidApplication")

\* delimited(space0, parse_application, space0)
term_close(t) == IF t.kind # "Ok" THEN t ELSE Ok(space0(t.rest).rest, t.out)
parse_term(i) == term_close(parse_application(space0(i).rest))

----------------------------------------------------------------------------
(* ast.rs: subst *)

RECURSIVE subst(_, _, _)
\* A faulty variant: the binder of var does not stop the substitution.
subst_under_binder(var, replacement, t) ==
  CASE t.tag = "Var" -> IF t.name = var THEN replacement ELSE Var(t.name)
    [] t.tag = "Abs" -> Abs(t.param, subst(var, replacement, t.body))
    [] t.tag = "App" -> App(subst(var, replacement, t.func),
                            subst(var, replacement, t.arg))

subst(var, replacement, t) ==
  CASE t.tag = "Var" -> IF t.name = var THEN replacement ELSE Var(t.name)
    [] t.tag = "Abs" -> IF t.param = var
                        THEN Abs(t.param, t.body)
                        ELSE Abs(t.param, subst(var, replacement, t.body))
    [] t.tag = "App" -> App(subst(var, replacement, t.func),
                            subst(var, replacement, t.arg))

----------------------------------------------------------------------------
(* interpreter.rs: Value, Env, eval, reify *)

VVar(x) == [tag |-> "Var", name |-> x]
\* Value::Closure: what the move closure of eval's Abs arm captures.
Closure(x, body, e) == [tag |-> "Closure", x |-> x, body |-> body, env |-> e]

\* The two ways a call ends without a Value: the panic of eval's App arm,
\* and the host stack exhausted by the recursion.
Panic == [tag |-> "Panic", msg |-> "Trying to apply a non-function"]
StackOverflow == [tag |-> "StackOverflow"]
IsValue(v) == v.tag \in {"Var", "Closure"}
IsAbort(v) == v.tag \in {"Panic", "StackOverflow"}

\* Env::new, HashMap::get, HashMap::insert
EmptyEnv == [n \in {} |-> n]
insert(e, k, v) == [n \in DOMAIN e \cup {k} |-> IF n = k THEN v ELSE e[n]]

RECURSIVE eval(_, _, _)

\* A faulty variant: the parameter does not shadow a binding the captured
\* environment already has (entry().or_insert for insert).
call_no_shadow(f, arg, d) ==
  IF d = 0 THEN [result |-> StackOverflow, env |-> f.env]
  ELSE LET new_env == IF f.x \in DOMAIN f.env THEN f.env ELSE insert(f.env, f.x, arg)
       IN [result |-> eval(f.body, new_env, d - 1), env |-> f.env]

\* A faulty variant: the call binds the parameter in the captured environment
\* itself, not in a copy of it.
call_in_place(f, arg, d) ==
  IF d = 0 THEN [result |-> StackOverflow, env |-> f.env]
  ELSE LET new_env == insert(f.env, f.x, arg)
       IN [result |-> eval(f.body, new_env, d - 1), env |-> new_env]

\* One call of the closure f: the result, and the environment the closure
\* holds once the call is over.  d is the room left on the stack.
call(f, arg, d) ==
  IF d = 0 THEN [result |-> StackOverflow, env |-> f.env]
  ELSE LET new_env == insert(f.env, f.x, arg)
       IN [result |-> eval(f.body, new_env, d - 1), env |-> f.env]

\* A faulty variant: applying a non-function returns the application's head
\* instead of panicking.
eval_no_panic(t, e, d) ==
  IF d = 0 THEN StackOverflow
  ELSE CASE t.tag = "Var" -> IF t.name \in DOMAIN e THEN e[t.name] ELSE VVar(t.name)
         [] t.tag = "Abs" -> Closure(t.param, t.body, e)
         [] t.tag = "App" ->
              LET func == eval(t.func, e, d - 1)
                  arg == eval(t.arg, e, d - 1)
              IN IF IsAbort(func) THEN func
                 ELSE IF IsAbort(arg) THEN arg
                 ELSE IF func.tag = "Closure" THEN call(func, arg, d - 1).result
                 ELSE func

eval(t, e, d) ==
  IF d = 0 THEN StackOverflow
  ELSE CASE t.tag = "Var" -> IF t.name \in DOMAIN e THEN e[t.name] ELSE VVar(t.name)
         [] t.tag = "Abs" -> Closure(t.param, t.body, e)
         [] t.tag = "App" ->
              LET func == eval(t.func, e, d - 1)
                  arg == eval(t.arg, e, d - 1)
              IN IF IsAbort(func) THEN func
                 ELSE IF IsAbort(arg) THEN arg
                 ELSE IF func.tag = "Closure" THEN call(func, arg, d - 1).result
                 ELSE Panic

RECURSIVE reify(_, _)
\* A faulty variant: the reified result is not wrapped in an abstraction.
reify_no_wrap(v, d) ==
  IF d = 0 THEN StackOverflow
  ELSE CASE v.tag = "Var" -> Var(v.name)
         [] v.tag = "Closure" ->
              LET dummy_var == VVar(S("x"))
                  result == call(v, dummy_var, d - 1).result
                  inner == reify(result, d - 1)
              IN IF IsAbort(result) THEN result ELSE inner

\* A faulty variant: the probe is named after the closure's own parameter.
reify_param_probe(v, d) ==
  IF d = 0 THEN StackOverflow
  ELSE CASE v.tag = "Var" -> Var(v.name)
         [] v.tag = "Closure" ->
              LET dummy_var == VVar(v.x)
                  result == call(v, dummy_var, d - 1).result
                  inner == reify(result, d - 1)
              IN IF IsAbort(result) THEN result
                 ELSE IF IsAbort(inner) THEN inner
                 ELSE Abs(v.x, inner)

reify(v, d) ==
  IF d = 0 THEN StackOverflow
  ELSE CASE v.tag = "Var" -> Var(v.name)
         [] v.tag = "Closure" ->
              LET dummy_var == VVar(S("x"))
                  result == call(v, dummy_var, d - 1).result
                  inner == reify(result, d - 1)
              IN IF IsAbort(result) THEN result
                 ELSE IF IsAbort(inner) THEN inner
                 ELSE Abs(S("x"), inner)

----------------------------------------------------------------------------
(* main.rs: run_file, on the contents of the file *)

\* Ok(result), unless eval did not return
run_result(result) ==
  IF IsAbort(result) THEN [kind |-> "Abort", cause |-> result]
  ELSE [kind |-> "Ok", value |-> result]

\* A faulty variant: the driver does not look at the remaining input.
run_parsed_nocheck(io, r) ==
  IF io = "open" THEN [kind |-> "Err", msg |-> "Error opening file"]
  ELSE IF io = "read" THEN [kind |-> "Err", msg |-> "Error reading file"]
  ELSE IF r.kind # "Ok" THEN [kind |-> "Err", msg |-> "Error parsing file"]
  ELSE run_result(eval(r.out, EmptyEnv, MaxDepth))
run_file_nocheck(io, contents) == run_parsed_nocheck(io, parse_term(contents))

\* run_file from the result r of parse_term on; io is how opening and
\* reading the file went.
run_parsed(io, r) ==
  IF io = "open" THEN [kind |-> "Err", msg |-> "Error opening file"]
  ELSE IF io = "read" THEN [kind |-> "Err", msg |-> "Error reading file"]
  ELSE IF r.kind # "Ok" THEN [kind |-> "Err", msg |-> "Error parsing file"]
  ELSE IF r.rest # <<>> THEN [kind |-> "Err", msg |-> "Unparsed input remaining"]
  ELSE run_result(eval(r.out, EmptyEnv, MaxDepth))

run_file(io, contents) == run_parsed(io, parse_term(contents))

----------------------------------------------------------------------------
(* The inputs *)

Alphabet == {"x", "y", Backslash, ".", "(", ")", " "}
Texts == UNION {[1..k -> Alphabet] : k \in 0..MaxLen}

Names == {S("x"), S("y")}

RECURSIVE TermsOfSize(_)
TermsOfSize(n) ==
  IF n = 1 THEN {Var(x) : x \in Names}
  ELSE {Abs(x, b) : x \in Names, b \in TermsOfSize(n - 1)}
       \cup UNION {{App(f, a) : f \in TermsOfSize(k), a \in TermsOfSize(n - 1 - k)}
                   : k \in 1..(n - 2)}
SmallTerms == UNION {TermsOfSize(n) : n \in 1..MaxTermSize}

\* The terms of the tests of interpreter.rs and of sections 4.5 and 8.
Identity == Abs(S("x"), Var(S("x")))
ConstFn == Abs(S("x"), Abs(S("y"), Var(S("x"))))
SelfApp == Abs(S("x"), App(Var(S("x")), Var(S("x"))))
Omega == App(SelfApp, SelfApp)
z_value == <<"z", "_", "v", "a", "l", "u", "e">>
ignored == <<"i", "g", "n", "o", "r", "e", "d">>
NamedTerms ==
  { App(Identity, Var(S("y"))),
    App(App(ConstFn, Var(S("a"))), Var(S("b"))),
    App(Abs(S("x"), Var(S("z"))), Var(ignored)),
    Abs(S("x"), Var(S("z"))),
    App(Var(S("f")), Var(S("x"))),
    App(Var(S("f")), Omega),
    SelfApp, Omega, Abs(S("y"), Omega),
    Abs(S("x"), Abs(S("y"), App(Var(S("y")), Var(S("x"))))),
    App(Abs(S("f"), Abs(S("x"), App(Var(S("f")), Var(S("x"))))), Identity) }
Terms == SmallTerms \cup NamedTerms

\* The texts of the tests of parser.rs and of section 8, beside the printed
\* small terms.
GreedyText == <<Backslash, "x", ".", " ", "x", " ", "y">>
ComplexText == <<"(", Backslash, "x", ".", " ", "x", " ", "y", ")", " ",
                 "(", Backslash, "z", ".", " ", "z", ")">>

\* The atoms of section 4.2 as text and Term, and their sequences, joined
\* by single spaces.
Atoms ==
  { [text |-> S("x"), term |-> Var(S("x"))],
    [text |-> S("f"), term |-> Var(S("f"))],
    [text |-> <<"(", "y", ")">>, term |-> Var(S("y"))],
    [text |-> <<"(", Backslash, "x", ".", "x", ")">>, term |-> Abs(S("x"), Var(S("x")))] }
AtomSeqs == UNION {[1..n -> Atoms] : n \in 2..MaxAtoms}
RECURSIVE JoinAtoms(_)
JoinAtoms(as) ==
  IF Len(as) = 1 THEN as[1].text
  ELSE JoinAtoms(SubSeq(as, 1, Len(as) - 1)) \o <<" ">> \o as[Len(as)].text
RECURSIVE LeftFold(_)
LeftFold(as) ==
  IF Len(as) = 1 THEN as[1].term
  ELSE App(LeftFold(SubSeq(as, 1, Len(as) - 1)), as[Len(as)].term)

NamedInputs ==
  { GreedyText, ComplexText,
    <<"f", " ", "x", " ", "y">>,
    <<"x", " ", "y", " ", "z", " ", "f">>,
    <<"f", " ", "(", "x", ")", " ", "y">>,
    <<"x", " ", "(", "y", ")">>,
    <<"(", "x", ")", " ", "y">>,
    <<"x", "\t", " ", "y", ")">>,
    <<" ", " ", "x", "y", " ", "z", "\n">>,
    <<"x", " ", "$", " ", "y">> }
Inputs == Texts \cup NamedInputs \cup {pretty_print(t) : t \in SmallTerms}
          \cup {JoinAtoms(as) : as \in AtomSeqs}

Envs ==
  { EmptyEnv,
    insert(EmptyEnv, S("z"), VVar(z_value)),
    insert(EmptyEnv, S("x"), VVar(S("y"))),
    insert(insert(EmptyEnv, S("x"), Closure(S("y"), Var(S("y")), EmptyEnv)),
           S("y"), VVar(S("a"))) }

Args == {VVar(S("a")), VVar(S("x")), Closure(S("y"), Var(S("y")), EmptyEnv)}
Replacements == {Var(S("x")), Var(S("y")), Var(S("z")),
                 App(Var(S("x")), Var(S("y"))), Abs(S("y"), Var(S("x")))}

----------------------------------------------------------------------------
(* The parser and the driver at work on one text *)

InitParser ==
  /\ op = "init"
  /\ tokens = None /\ spaced = None
  /\ input \in Inputs
  /\ pres = None /\ printed = None /\ pres2 = None /\ outcome = None
  /\ term = None /\ env = EmptyEnv /\ val = None /\ held = None
  /\ calls = <<>> /\ reified = None
  /\ svar = <<>> /\ repl = None /\ sout = None

\* parse_term(input)
ParseTerm ==
  /\ pres = None
  /\ pres' = parse_term(input)
  /\ op' = "parse_term"
  /\ UNCHANGED <<input, printed, pres2, outcome, evalVars, substVars, lexVars>>

\* pretty_print of the Term of a parse that left no input over
PrettyPrint ==
  /\ pres.kind = "Ok" /\ pres.rest = <<>>
  /\ printed = None
  /\ printed' = [kind |-> "Text", text |-> pretty_print(pres.out)]
  /\ op' = "pretty_print"
  /\ UNCHANGED <<input, pres, pres2, outcome, evalVars, substVars, lexVars>>

\* parse_term(pretty_print(t))
Reparse ==
  /\ printed # None /\ pres2 = None
  /\ pres2' = parse_term(printed.text)
  /\ op' = "reparse"
  /\ UNCHANGED <<input, pres, printed, outcome, evalVars, substVars, lexVars>>

\* run_file on a file that holds input
RunFile ==
  /\ outcome = None
  /\ \E io \in {"ok", "open", "read"} : outcome' = run_file(io, input)
  /\ op' = "run_file"
  /\ UNCHANGED <<input, pres, printed, pres2, evalVars, substVars, lexVars>>

NextParser == ParseTerm \/ PrettyPrint \/ Reparse \/ RunFile
SpecParser == InitParser /\ [][NextParser]_vars

----------------------------------------------------------------------------
(* The evaluator and the reifier at work on one term *)

InitEval ==
  /\ op = "init"
  /\ tokens = None /\ spaced = None
  /\ term \in Terms /\ env \in Envs
  /\ val = None /\ held = None /\ calls = <<>> /\ reified = None
  /\ input = <<>> /\ pres = None /\ printed = None /\ pres2 = None
  /\ outcome = None
  /\ svar = <<>> /\ repl = None /\ sout = None

\* eval(term, &env); a closure it returns is held for later calls
Eval ==
  /\ val = None
  /\ val' = eval(term, env, MaxDepth)
  /\ held' = IF val'.tag = "Closure" THEN val' ELSE None
  /\ op' = "eval"
  /\ UNCHANGED <<term, env, calls, reified, parserVars, substVars, lexVars>>

\* closure(a), as the tests of main.rs call the closure eval returned
Invoke ==
  /\ held # None /\ Len(calls) < MaxCalls
  /\ \E a \in Args :
       LET r == call(held, a, MaxDepth)
       IN /\ calls' = Append(calls, [arg |-> a, result |-> r.result])
          /\ held' = [held EXCEPT !.env = r.env]
  /\ op' = "call"
  /\ UNCHANGED <<term, env, val, reified, parserVars, substVars, lexVars>>

\* reify(val)
Reify ==
  /\ val # None /\ IsValue(val) /\ reified = None
  /\ reified' = reify(val, MaxDepth)
  /\ op' = "reify"
  /\ UNCHANGED <<term, env, val, held, calls, parserVars, substVars, lexVars>>

NextEval == Eval \/ Invoke \/ Reify
SpecEval == InitEval /\ [][NextEval]_vars

----------------------------------------------------------------------------
(* subst at work on one term *)

InitSubst ==
  /\ op = "init"
  /\ tokens = None /\ spaced = None
  /\ term \in Terms /\ svar \in Names \cup {S("z")} /\ repl \in Replacements
  /\ sout = None
  /\ env = EmptyEnv /\ val = None /\ held = None /\ calls = <<>> /\ reified = None
  /\ input = <<>> /\ pres = None /\ printed = None /\ pres2 = None
  /\ outcome = None

\* subst(svar, &repl, &term)
Subst ==
  /\ sout = None
  /\ sout' = subst(svar, repl, term)
  /\ op' = "subst"
  /\ UNCHANGED <<term, svar, repl, env, val, held, calls, reified, parserVars, lexVars>>

NextSubst == Subst
SpecSubst == InitSubst /\ [][NextSubst]_vars

----------------------------------------------------------------------------
(* The claims about the parser, under SpecParser *)

\* C1: round trip.  Whenever parse_term succeeded on the input with nothing
\* left over and its Term t was printed and parsed again, the second parse
\* succeeds with nothing left over and returns a Term equal to t.
C1_RoundTrip ==
  pres2 # None =>
    /\ pres2.kind = "Ok"
    /\ pres2.rest = <<>>
    /\ pres2.out = pres.out

\* A nested application was parsed, printed and parsed again.
C1_Witness ==
  /\ pres2 # None
  /\ pres.out.tag = "App" /\ pres.out.func.tag = "App"
  /\ pres2.kind = "Ok" /\ pres2.out = pres.out

\* C2: greedy abstraction body.  parse_term on a text `\x.body` whose body
\* is a term succeeds with Abs(x, B), B the parse of all that follows the
\* dot; `\x. x y` yields Abs(x, App(x, y)); `(\x. x y) (\z. z)` yields
\* App(Abs(x, App(x, y)), Abs(z, z)).
C2_GreedyBody ==
  pres # None =>
    /\ LET body == parse_term(Drop(input, 3))
       IN ( /\ Len(input) > 3
            /\ input[1] = Backslash /\ is_alphabetic(input[2]) /\ input[3] = "."
            /\ body.kind = "Ok" /\ body.rest = <<>> )
          => pres = Ok(<<>>, Abs(S(input[2]), body.out))
    /\ input = GreedyText
         => pres = Ok(<<>>, Abs(S("x"), App(Var(S("x")), Var(S("y")))))
    /\ input = ComplexText
         => pres = Ok(<<>>, App(Abs(S("x"), App(Var(S("x")), Var(S("y")))),
                                Abs(S("z"), Var(S("z")))))

\* C3 as stated: parse_term never succeeds with input left over, and the
\* unclosed `(x` is an error.
C3_Original ==
  pres # None =>
    /\ pres.kind = "Ok" => pres.rest = <<>>
    /\ input = <<"(", "x">> => pres.kind # "Ok"

\* C3, amended: it is run_file that consumes the entire input or fails.
\* When parse_term leaves input over after a complete term, run_file returns
\* the error "Unparsed input remaining"; run_file evaluates only a parse
\* that left nothing over; a failed parse is an error of run_file; `(x` is
\* an error of parse_term; and parse_term itself succeeds on `x)` with the
\* Term x and the remainder `)`.
C3_RunFileConsumesAll ==
  /\ outcome # None =>
       LET r == parse_term(input)
       IN /\ (r.kind = "Ok" /\ r.rest # <<>>)
               => (outcome.kind = "Err" /\ outcome.msg \in
                     {"Unparsed input remaining", "Error opening file", "Error reading file"})
          /\ outcome.kind \in {"Ok", "Abort"} => (r.kind = "Ok" /\ r.rest = <<>>)
          /\ r.kind # "Ok" => outcome.kind = "Err"
          /\ input = <<"(", "x">> => r.kind # "Ok"
  /\ (pres # None /\ input = <<"x", ")">>) => pres = Ok(<<")">>, Var(S("x")))

\* run_file refused `x)` for the stray parenthesis parse_term left over.
C3_Witness ==
  /\ outcome # None /\ pres # None
  /\ input = <<"x", ")">>
  /\ pres.kind = "Ok" /\ pres.rest = <<")">>
  /\ outcome = [kind |-> "Err", msg |-> "Unparsed input remaining"]

\* C4: left-associative application.  parse_term on n >= 2 atoms separated
\* by spaces yields their left fold; `f x y` yields App(App(f, x), y).
C4_LeftAssoc ==
  pres # None =>
    /\ \A as \in AtomSeqs :
         input = JoinAtoms(as) => pres = Ok(<<>>, LeftFold(as))
    /\ input = <<"f", " ", "x", " ", "y">>
         => pres = Ok(<<>>, App(App(Var(S("f")), Var(S("x"))), Var(S("y"))))

----------------------------------------------------------------------------
(* The claims about the evaluator and the reifier, under SpecEval.  A call *)
(* made inside eval or reify has one stack frame less than its caller.     *)

IsTerm(t) == t.tag \in {"Var", "Abs", "App"}

RECURSIVE AppFree(_)
AppFree(t) ==
  CASE t.tag = "Var" -> TRUE
    [] t.tag = "Abs" -> AppFree(t.body)
    [] t.tag = "App" -> FALSE

\* The number of abstractions at the head of a term.
RECURSIVE Layers(_)
Layers(t) == IF t.tag = "Abs" THEN 1 + Layers(t.body) ELSE 0

\* C5: beta application by value.  When the argument a of App(Abs(x, body), a)
\* evaluates to a value, the evaluation of the application is the evaluation
\* of body in env with x bound to that value; in the empty environment
\* (\x. x) y evaluates to Var y and ((\x. \y. x) a) b to Var a.
C5_BetaByValue ==
  val # None =>
    /\ (term.tag = "App" /\ term.func.tag = "Abs") =>
         LET a == eval(term.arg, env, MaxDepth - 1)
         IN IsValue(a) =>
              val = eval(term.func.body, insert(env, term.func.param, a), MaxDepth - 2)
    /\ (term = App(Identity, Var(S("y"))) /\ env = EmptyEnv) => val = VVar(S("y"))
    /\ (term = App(App(ConstFn, Var(S("a"))), Var(S("b"))) /\ env = EmptyEnv)
         => val = VVar(S("a"))

\* An abstraction whose parameter the environment already binds was applied
\* to an argument, and the argument's value came out of the body.
C5_Witness ==
  /\ val # None
  /\ term.tag = "App" /\ term.func.tag = "Abs"
  /\ term.func.param \in DOMAIN env
  /\ term.func.body = Var(term.func.param)
  /\ IsValue(val)
  /\ val = eval(term.arg, env, MaxDepth) /\ val # env[term.func.param]

\* C6: applying a non-function is fatal.  With f and a evaluated to values
\* in that order, eval(App(f, a), env) is the closure of f called on the
\* value of a when f's value is a closure, and the panic "Trying to apply a
\* non-function" when f's value is a Value::Var; whatever a does, an
\* application whose head evaluates to a Value::Var returns no Value; and
\* `f x` in the empty environment panics.
C6_NonFunctionFatal ==
  (val # None /\ term.tag = "App") =>
    LET f == eval(term.func, env, MaxDepth - 1)
        a == eval(term.arg, env, MaxDepth - 1)
    IN /\ (IsValue(f) /\ IsValue(a) /\ f.tag = "Closure")
            => val = call(f, a, MaxDepth - 1).result
       /\ (IsValue(f) /\ IsValue(a) /\ f.tag = "Var") => val = Panic
       /\ (IsValue(f) /\ f.tag = "Var") => ~IsValue(val)
       /\ (term = App(Var(S("f")), Var(S("x"))) /\ env = EmptyEnv) => val = Panic

\* The open term `f x` was evaluated in the empty environment and panicked.
C6_Witness ==
  /\ val = Panic
  /\ term = App(Var(S("f")), Var(S("x")))
  /\ env = EmptyEnv

\* C7: closure environment capture.  The closure of eval(Abs(x, body), env)
\* holds x, body and env; every call of it with an argument a returns the
\* evaluation of body in env with x bound to a; after any number of calls
\* the closure held is the closure eval returned, so two calls with the
\* same argument return the same result whatever was called in between; and
\* with env {z |-> Var z_value} every call of the closure of \x. z returns
\* Var z_value, as does the application of \x. z to an argument.
C7_EnvCapture ==
  /\ held # None =>
       /\ held = val
       /\ \A i, j \in 1..Len(calls) :
            calls[i].arg = calls[j].arg => calls[i].result = calls[j].result
       /\ term.tag = "Abs" =>
            /\ held.x = term.param /\ held.body = term.body /\ held.env = env
            /\ \A i \in 1..Len(calls) :
                 calls[i].result =
                   eval(term.body, insert(env, term.param, calls[i].arg), MaxDepth - 1)
       /\ (term = Abs(S("x"), Var(S("z"))) /\ env = insert(EmptyEnv, S("z"), VVar(z_value)))
            => \A i \in 1..Len(calls) : calls[i].result = VVar(z_value)
  /\ ( /\ val # None
       /\ term = App(Abs(S("x"), Var(S("z"))), Var(ignored))
       /\ env = insert(EmptyEnv, S("z"), VVar(z_value)) )
       => val = VVar(z_value)

\* A closure whose parameter shadows a binding of its environment was called
\* with one argument, then another, then the first again.
C7_Witness ==
  /\ held # None /\ term.tag = "Abs"
  /\ term.param \in DOMAIN env
  /\ Len(calls) = 3
  /\ calls[1].arg = calls[3].arg /\ calls[1].arg # calls[2].arg
  /\ calls[1].result = calls[3].result /\ calls[1].result # calls[2].result

\* C8 as stated: reify returns a Term for every closure that eval returns
\* in the empty environment.
C8_Original ==
  (reified # None /\ val.tag = "Closure" /\ env = EmptyEnv) => IsTerm(reified)

\* C8, amended: reify of a closure that eval returns in the empty
\* environment returns an abstraction, or panics because a probe applies a
\* non-function, or exhausts the stack.  It returns an abstraction whenever
\* the term holds no application, one abstraction per layer of the term; on
\* \x. x x it panics, and on \y. (\x. x x) (\x. x x) it exhausts the stack.
C8_ReifyOutcomes ==
  (reified # None /\ val.tag = "Closure" /\ env = EmptyEnv) =>
    /\ reified.tag \in {"Abs", "Panic", "StackOverflow"}
    /\ AppFree(term) => (reified.tag = "Abs" /\ Layers(reified) = Layers(term))
    /\ term = SelfApp => reified = Panic
    /\ term = Abs(S("y"), Omega) => reified = StackOverflow

\* A term of three abstractions and no application was reified.
C8_Witness ==
  /\ reified # None /\ env = EmptyEnv
  /\ AppFree(term) /\ Layers(term) = 3
  /\ IsTerm(reified) /\ Layers(reified) = 3

\* C9: reification by probing.  reify(Value::Var(n)) is Term::Var(n); when
\* the probe of a closure with Var "x" returns a value that reifies to a
\* Term, reify of the closure is Abs("x", that Term); the value of \x. x
\* reifies to \x. x and the value of \x. \y. x to \x. \x. x.
C9_ReifyByProbing ==
  reified # None =>
    /\ val.tag = "Var" => reified = Var(val.name)
    /\ val.tag = "Closure" =>
         LET r == call(val, VVar(S("x")), MaxDepth - 1).result
         IN IsValue(r) =>
              LET inner == reify(r, MaxDepth - 1)
              IN IsTerm(inner) => reified = Abs(S("x"), inner)
    /\ IsTerm(reified) => Layers(reified) >= (IF val.tag = "Closure" THEN 1 ELSE 0)
    /\ (term = Identity /\ env = EmptyEnv) => reified = Identity
    /\ (term = ConstFn /\ env = EmptyEnv)
         => reified = Abs(S("x"), Abs(S("x"), Var(S("x"))))

\* The value of \x. \y. x was reified to \x. \x. x.
C9_Witness ==
  /\ term = ConstFn /\ env = EmptyEnv
  /\ reified = Abs(S("x"), Abs(S("x"), Var(S("x"))))

----------------------------------------------------------------------------
(* The claim about subst, under SpecSubst.  A position of a term is the   *)
(* path of fields from its root.                                           *)

RECURSIVE Positions(_)
Positions(t) ==
  CASE t.tag = "Var" -> {<<>>}
    [] t.tag = "Abs" -> {<<>>} \cup {<<"body">> \o p : p \in Positions(t.body)}
    [] t.tag = "App" -> {<<>>} \cup {<<"func">> \o p : p \in Positions(t.func)}
                               \cup {<<"arg">> \o p : p \in Positions(t.arg)}

RECURSIVE At(_, _)
At(t, p) ==
  IF p = <<>> THEN t
  ELSE IF Head(p) = "body" THEN At(t.body, Tail(p))
  ELSE IF Head(p) = "func" THEN At(t.func, Tail(p))
  ELSE At(t.arg, Tail(p))

\* The constructor at the root of a term, with the name it carries.
Node(t) ==
  CASE t.tag = "Var" -> <<"Var", t.name>>
    [] t.tag = "Abs" -> <<"Abs", t.param>>
    [] t.tag = "App" -> <<"App">>

IsPrefix(q, p) == Len(q) <= Len(p) /\ SubSeq(p, 1, Len(q)) = q

\* The positions of the free occurrences of var in t: the Var(var) nodes
\* with no binder of var above them.
FreeOccurrences(var, t) ==
  { p \in Positions(t) :
      /\ At(t, p) = Var(var)
      /\ \A n \in 0..(Len(p) - 1) :
           LET above == At(t, SubSeq(p, 1, n))
           IN ~(above.tag = "Abs" /\ above.param = var) }

\* C10: capture-unsafe substitution.  subst(var, r, t) has r at every free
\* occurrence of var in t, the node of t at every other position of t, and
\* no position but those of t and of the copies of r; nothing is renamed,
\* so a binder of t captures the free variables of r; Abs(var, body) is
\* returned unchanged.
C10_Subst ==
  sout # None =>
    LET free == FreeOccurrences(svar, term)
    IN /\ \A p \in Positions(term) :
            /\ p \in Positions(sout)
            /\ IF p \in free THEN At(sout, p) = repl
               ELSE Node(At(sout, p)) = Node(At(term, p))
       /\ \A p \in Positions(sout) :
            \/ p \in Positions(term)
            \/ \E q \in free : IsPrefix(q, p)
       /\ (term.tag = "Abs" /\ term.param = svar) => sout = term
       /\ (term.tag = "Var" /\ term.name = svar) => sout = repl
       /\ (term.tag = "Var" /\ term.name # svar) => sout = term
       /\ (term = Abs(S("y"), Var(S("x"))) /\ svar = S("x") /\ repl = Var(S("y")))
            => sout = Abs(S("y"), Var(S("y")))

\* A term that holds var both free and under a binder of var was
\* substituted into: the free occurrence was replaced, the bound one kept.
C10_Witness ==
  /\ sout # None
  /\ term = App(Var(S("x")), Abs(S("x"), Var(S("x"))))
  /\ svar = S("x") /\ repl = Abs(S("y"), Var(S("x")))
  /\ sout = App(repl, Abs(S("x"), Var(S("x"))))

----------------------------------------------------------------------------
(* parse_term at work on two texts that differ by one blank at a token     *)
(* boundary                                                                *)

InsertAt(i, k, b) == Take(i, k) \o <<b>> \o Drop(i, k)
RemoveAt(i, k) == Take(i, k - 1) \o Drop(i, k)

\* A blank put after the k-th character would split an identifier; the
\* k-th character taken out would merge two.
SplitsIdentifier(i, k) ==
  k \in 1..(Len(i) - 1) /\ is_alphanumeric(i[k]) /\ is_alphanumeric(i[k + 1])
MergesIdentifiers(i, k) ==
  k \in 2..(Len(i) - 1) /\ is_alphanumeric(i[k - 1]) /\ is_alphanumeric(i[k + 1])

\* The texts of the claim about whitespace.
SpacingInputs ==
  { <<"f", "(", "x", ")">>,
    <<"(", " ", "x", " ", ")">>,
    <<"(", "x", ")">>,
    <<Backslash, "x", ".", "x">>,
    <<Backslash, "x", " ", ".", "x">>,
    <<Backslash, " ", "x", ".", "x">> }

InitSpacing ==
  /\ op = "init"
  /\ input \in Inputs \cup SpacingInputs
  /\ pres = None /\ printed = None /\ pres2 = None /\ outcome = None
  /\ term = None /\ env = EmptyEnv /\ val = None /\ held = None
  /\ calls = <<>> /\ reified = None
  /\ svar = <<>> /\ repl = None /\ sout = None
  /\ tokens = None /\ spaced = None

\* The same text with one blank more at a token boundary
InsertBlank ==
  /\ spaced = None
  /\ \E k \in 0..Len(input), b \in Blanks :
       /\ ~SplitsIdentifier(input, k)
       /\ spaced' = [kind |-> "Text", text |-> InsertAt(input, k, b)]
  /\ op' = "insert_blank"
  /\ UNCHANGED <<parserVars, evalVars, substVars, tokens>>

\* The same text with one blank less at a token boundary
RemoveBlank ==
  /\ spaced = None
  /\ \E k \in 1..Len(input) :
       /\ input[k] \in Blanks
       /\ ~MergesIdentifiers(input, k)
       /\ spaced' = [kind |-> "Text", text |-> RemoveAt(input, k)]
  /\ op' = "remove_blank"
  /\ UNCHANGED <<parserVars, evalVars, substVars, tokens>>

\* parse_term on the text and on the text with the blank changed
ParsePair ==
  /\ spaced # None /\ pres = None
  /\ pres' = parse_term(input)
  /\ pres2' = parse_term(spaced.text)
  /\ op' = "parse_pair"
  /\ UNCHANGED <<input, printed, outcome, evalVars, substVars, lexVars>>

NextSpacing == InsertBlank \/ RemoveBlank \/ ParsePair
SpecSpacing == InitSpacing /\ [][NextSpacing]_vars

\* C11: whitespace between tokens does not matter.  parse_term on a text and
\* on the same text with one blank more or less at a token boundary both
\* succeed with the same Term or both fail: `f(x)` as `f (x)`, `( x )` as
\* `(x)`, `x ` as `x`, `\x .x` and `\ x.x` as `\x.x`.
C11_WhitespaceInsensitive ==
  (spaced # None /\ pres # None /\ pres2 # None) =>
    /\ (pres.kind = "Ok") <=> (pres2.kind = "Ok")
    /\ (pres.kind = "Ok" /\ pres2.kind = "Ok") => pres.out = pres2.out

----------------------------------------------------------------------------
(* The lexer (lexer.rs) *)

\* enum Token.
Lambda == [tag |-> "Lambda"]
Dot == [tag |-> "Dot"]
LeftParen == [tag |-> "LeftParen"]
RightParen == [tag |-> "RightParen"]
Identifier(name) == [tag |-> "Identifier", name |-> name]

\* char::is_whitespace on the characters used.
is_whitespace(c) == c \in Blanks \cup {"\n"}

\* A faulty variant: read_identifier stops after one character.
read_identifier_one(inp, position) == position + 1

\* read_identifier: advance while the character peeked is alphabetic. The
\* value is the position reached; the identifier is inp[start..position].
\* Positions count the characters consumed, from 0, as Lexer::position does.
RECURSIVE read_identifier(_, _)
read_identifier(inp, position) ==
  IF position < Len(inp) /\ is_alphabetic(inp[position + 1])
  THEN read_identifier(inp, position + 1)
  ELSE position

\* format!("Unexpected character: {}", ch): the literal, then the character.
unexpected_character(ch) ==
  [kind |-> "Err", msg |-> <<"Unexpected character: ", ch>>]

\* The loop of tokenize: one match on the character peeked per round.
RECURSIVE tokenize_loop(_, _, _)
push_identifier(inp, start, position, toks) ==
  tokenize_loop(inp, position,
                Append(toks, Identifier(SubSeq(inp, start + 1, position))))

tokenize_loop(inp, position, toks) ==
  IF position >= Len(inp) THEN [kind |-> "Ok", tokens |-> toks]
  ELSE IF inp[position + 1] = Backslash
  THEN tokenize_loop(inp, position + 1, Append(toks, Lambda))
  ELSE IF inp[position + 1] = "."
  THEN tokenize_loop(inp, position + 1, Append(toks, Dot))
  ELSE IF inp[position + 1] = "("
  THEN tokenize_loop(inp, position + 1, Append(toks, LeftParen))
  ELSE IF inp[position + 1] = ")"
  THEN tokenize_loop(inp, position + 1, Append(toks, RightParen))
  ELSE IF is_whitespace(inp[position + 1])
  THEN tokenize_loop(inp, position + 1, toks)
  ELSE IF is_alphabetic(inp[position + 1])
  THEN push_identifier(inp, position, read_identifier(inp, position), toks)
  ELSE unexpected_character(inp[position + 1])

\* Lexer::new(input).tokenize()
tokenize(inp) == tokenize_loop(inp, 0, <<>>)

\* The characters of the lexer's inputs.
LexAlphabet ==
  {"x", "y", Backslash, ".", "(", ")", " ", "\n", "$", LambdaGlyph}
LexTexts == UNION {[1..k -> LexAlphabet] : k \in 0..MaxLexLen}
\* The input of test_tokenize is ComplexText; the others are the spec's.
NamedLexInputs ==
  { ComplexText,
    <<"x", " ", "$", " ", "y">>,
    <<LambdaGlyph, "x", ".", " ", "x">>,
    <<"(", LambdaGlyph, "x", ".", "x", ")", " ", "y">>,
    <<"f", "g", "\t", "(", "a", "1", ")">> }

InitLexer ==
  /\ op = "init"
  /\ input \in LexTexts \cup NamedLexInputs
  /\ pres = None /\ printed = None /\ pres2 = None /\ outcome = None
  /\ term = None /\ env = EmptyEnv /\ val = None /\ held = None
  /\ calls = <<>> /\ reified = None
  /\ svar = <<>> /\ repl = None /\ sout = None
  /\ tokens = None /\ spaced = None

Tokenize ==
  /\ tokens = None
  /\ tokens' = tokenize(input)
  /\ op' = "tokenize"
  /\ UNCHANGED <<parserVars, evalVars, substVars, spaced>>

NextLexer == Tokenize

SpecLexer == InitLexer /\ [][NextLexer]_vars

----------------------------------------------------------------------------
(* C12: the token classes of tokenize *)

\* The text a token stands for.
token_text(t) ==
  IF t.tag = "Lambda" THEN <<Backslash>>
  ELSE IF t.tag = "Dot" THEN <<".">>
  ELSE IF t.tag = "LeftParen" THEN <<"(">>
  ELSE IF t.tag = "RightParen" THEN <<")">>
  ELSE t.name

RECURSIVE Flatten(_)
Flatten(toks) ==
  IF toks = <<>> THEN <<>> ELSE token_text(Head(toks)) \o Flatten(Tail(toks))

\* The text with its whitespace taken out.
StripWhitespace(i) == LET Kept(c) == ~is_whitespace(c) IN SelectSeq(i, Kept)

\* The characters one of the match arms of tokenize takes.
Lexable(c) ==
  c \in {Backslash, ".", "(", ")"} \/ is_whitespace(c) \/ is_alphabetic(c)

\* The places of the text holding a character of the set.
Places(i, cs) == {k \in 1..Len(i) : i[k] \in cs}
\* The places where a maximal run of alphabetic characters starts.
RunStarts(i) ==
  {k \in 1..Len(i) :
     is_alphabetic(i[k]) /\ (k = 1 \/ ~is_alphabetic(i[k - 1]))}
\* The places of the tokens with the tag.
Tagged(toks, tag) == {k \in 1..Len(toks) : toks[k].tag = tag}

\* The first place of the text no arm takes, counted from 1.
FirstUnexpected(i) ==
  CHOOSE k \in 1..Len(i) :
    ~Lexable(i[k]) /\ \A j \in 1..(k - 1) : Lexable(i[j])

\* The decimal text of a small number.
Decimal(n) == <<"0", "1", "2", "3", "4", "5", "6", "7", "8", "9">>[n + 1]

\* What the claim and the code agree on: the pass succeeds exactly on the
\* texts made of lexable characters; then every `.`, `(`, `)` gives its own
\* token, whitespace gives none, each maximal alphabetic run gives one
\* Identifier holding the run, and the tokens in order spell the text
\* without its whitespace. Otherwise the result is an error that names the
\* first unexpected character and carries no tokens.
TokenClasses(i, r) ==
  /\ (r.kind = "Ok") <=> (\A k \in 1..Len(i) : Lexable(i[k]))
  /\ r.kind = "Ok" =>
       /\ Cardinality(Tagged(r.tokens, "Dot")) = Cardinality(Places(i, {"."}))
       /\ Cardinality(Tagged(r.tokens, "LeftParen"))
            = Cardinality(Places(i, {"("}))
       /\ Cardinality(Tagged(r.tokens, "RightParen"))
            = Cardinality(Places(i, {")"}))
       /\ Cardinality(Tagged(r.tokens, "Identifier"))
            = Cardinality(RunStarts(i))
       /\ \A k \in Tagged(r.tokens, "Identifier") :
            /\ r.tokens[k].name # <<>>
            /\ \A j \in 1..Len(r.tokens[k].name) :
                 is_alphabetic(r.tokens[k].name[j])
       /\ Len(r.tokens) <= Len(StripWhitespace(i))
  /\ r.kind # "Ok" =>
       /\ r.kind = "Err"
       /\ "tokens" \notin DOMAIN r
       /\ \E k \in 1..Len(r.msg) : r.msg[k] = i[FirstUnexpected(i)]

====
